---------------------------- MODULE Spec2Model ----------------------------
(***************************************************************************)
(* A model of pixivapi.client.Client (src/pixivapi/client.py): the stored  *)
(* credentials, the shared requests session, the OAuth exchange behind     *)
(* login() and authenticate(), the JSON request wrapper _request_json and  *)
(* the endpoint methods built on it. Spec is the client used from one      *)
(* thread, one call at a time; SpecThreads is login() and authenticate()   *)
(* called from two threads that share the client.                          *)
(*                                                                         *)
(* Python values are tagged records, so that None, strings, integers,      *)
(* dicts, tuples and enum members can be told apart and compared.          *)
(***************************************************************************)
EXTENDS Integers, Sequences, FiniteSets, TLC

VARIABLES
    language,       \* Client.language
    account,        \* Client.account
    access_token,   \* Client.access_token
    refresh_token,  \* Client.refresh_token
    headers,        \* Client.session.headers (the session's default headers)
    call,           \* the public method called last, with its arguments
    request,        \* the request that call issued on the session, if any
    response,       \* what the transport answered to that request
    outcome,        \* how that call ended: a return value or a raised error
    nCalls,         \* number of public method calls made so far
    nPassed,        \* number of those calls that got past the auth gate
    nRequests,      \* number of requests issued on the session so far
    loggedIn,       \* history: some login()/authenticate() call has returned
    pc,             \* per thread: the statement of _make_auth_request it is at
    frame,          \* per thread: the locals of its _make_auth_request call
    overlapped,     \* history: a call began while another thread's was running
    raised          \* history: some call made from a thread has raised

vars == <<language, account, access_token, refresh_token, headers, call,
          request, response, outcome, nCalls, nPassed, nRequests, loggedIn,
          pc, frame, overlapped, raised>>

\* What the calls made one at a time leave alone: the threads' positions.
threadVars == <<pc, frame, overlapped, raised>>

\* The threads that share one client.
Threads == {1, 2}

clientState == <<account, access_token, refresh_token, headers>>

\* The number of public method calls one behaviour makes.
MaxCalls == 2

-----------------------------------------------------------------------------
(* Python values *)

None == [t |-> "None"]
Str(s) == [t |-> "str", v |-> s]
PyInt(n) == [t |-> "int", v |-> n]
PyBool(b) == [t |-> "bool", v |-> b]
Dict(f) == [t |-> "dict", v |-> f]
List(s) == [t |-> "list", v |-> s]
Tuple(s) == [t |-> "tuple", v |-> s]
EnumMember(cls, name, value) == [t |-> "enum", cls |-> cls, name |-> name, v |-> value]

\* Dict literals: {k: v} is k ::= v, and {**d, **e} is d ++ e (on a shared key
\* the entry of e wins).
k ::= v == [x \in {k} |-> v]
d ++ e == [x \in DOMAIN d \cup DOMAIN e |-> IF x \in DOMAIN e THEN e[x] ELSE d[x]]

\* {} and d.update({k: v})
EmptyDict == [k \in {} |-> None]
Update(d, k, v) == [x \in DOMAIN d \cup {k} |-> IF x = k THEN v ELSE d[x]]

\* bool(v): the truth value Python gives a value.
Truthy(v) ==
    CASE v.t = "None" -> FALSE
      [] v.t = "str" -> v.v # ""
      [] v.t = "int" -> v.v # 0
      [] v.t = "bool" -> v.v
      [] v.t = "dict" -> DOMAIN v.v # {}
      [] v.t \in {"list", "tuple"} -> Len(v.v) > 0
      [] OTHER -> TRUE

\* str(v), as used by f-strings, ','.join(str(x) ...) and URL encoding.
PyStr(v) ==
    CASE v.t = "None" -> "None"
      [] v.t = "str" -> v.v
      [] v.t = "int" -> ToString(v.v)
      [] v.t = "bool" -> IF v.v THEN "True" ELSE "False"
      [] OTHER -> "<object>"

\* v[k] with a string key: the value, or the exception Python raises.
GetItem(v, k) ==
    IF v.t = "dict"
    THEN IF k \in DOMAIN v.v
         THEN [exc |-> "", value |-> v.v[k]]
         ELSE [exc |-> "KeyError", value |-> None]
    ELSE [exc |-> "TypeError", value |-> None]

\* How a call ends.
Return(v) == [kind |-> "return", exc |-> "", args |-> <<>>, value |-> v]
Raise(e, a) == [kind |-> "raise", exc |-> e, args |-> a, value |-> None]

-----------------------------------------------------------------------------
(* Collaborators from pixivapi.common, pixivapi.enums and pixivapi.errors *)

\* pixivapi.common.HEADERS: the fixed headers every session starts with.
\* None of them is Authorization or Accept-Language.
HEADERS == EmptyDict

\* pixivapi.common.Struct: an attribute-access wrapper over a JSON object.
Struct(d) == [t |-> "Struct", v |-> d]

\* pixivapi.common.format_bool: the API's tokens for True and False.
format_bool(b) == Str(IF Truthy(b) THEN "true" ELSE "false")

\* pixivapi.common.require_auth: TRUE when the wrapped method may run, FALSE
\* when the decorator raises AuthenticationRequired without calling it. The
\* decorator lets the call through once the client holds an access token.
require_auth(token) == Truthy(token)

\* pixivapi.common.parse_qs: the value of parameter param in the query string
\* of next_url (a number where it looks like one), or None when the URL is
\* None or does not carry the parameter.
parse_qs(next_url, param) ==
    IF next_url.t # "str" THEN None
    ELSE IF next_url.v = "https://app-api.pixiv.net/v1/x?offset=30&max_bookmark_id_for_recommend=5&min_bookmark_id_for_recent_illust=7"
    THEN CASE param = "offset" -> PyInt(30)
           [] param = "max_bookmark_id_for_recommend" -> PyInt(5)
           [] param = "min_bookmark_id_for_recent_illust" -> PyInt(7)
           [] OTHER -> None
    ELSE None

\* pixivapi.models.Illustration and Comment: a model instance built from the
\* fields of one JSON object, holding the client it was given (None when it
\* was given none).
Illustration(fields, client) ==
    [t |-> "Illustration", v |-> fields, client |-> client]
Comment(fields, client) ==
    [t |-> "Comment", v |-> fields, client |-> client]

\* Members of the enums of pixivapi.enums and their wire values.
SearchTarget_TAGS_PARTIAL == EnumMember("SearchTarget", "TAGS_PARTIAL", "partial_match_for_tags")
Sort_DATE_DESC == EnumMember("Sort", "DATE_DESC", "date_desc")
Duration_LAST_DAY == EnumMember("Duration", "LAST_DAY", "within_last_day")
Visibility_PUBLIC == EnumMember("Visibility", "PUBLIC", "public")
ContentType_ILLUSTRATION == EnumMember("ContentType", "ILLUSTRATION", "illust")
RankingMode_DAY == EnumMember("RankingMode", "DAY", "day")

\* member.value
Value(e) == Str(e.v)

-----------------------------------------------------------------------------
(* Module constants *)

AUTH_URL == "https://oauth.secure.pixiv.net/auth/token"
BASE_URL == "https://app-api.pixiv.net"
FILTER == Str("for_ios")

\* Defaults of Client.__init__.
DefaultClientId == Str("KzEZED7aC0vird8jWyHM38mXjNTY")
DefaultClientSecret == Str("W9JZoJe00qPvJsiyCGT3CCtC6ZUtdpKpzMbNlUGP")

-----------------------------------------------------------------------------
(* The transport: requests.Session and the responses of the remote service *)

\* A response of the service, or a transport failure (requests raising a
\* RequestException in place of answering).
Response(status, text) == [fail |-> FALSE, status_code |-> status, text |-> text]
TransportFailure == [fail |-> TRUE, status_code |-> 0, text |-> ""]
NoResponse == [fail |-> FALSE, status_code |-> 0, text |-> ""]

\* Bodies the OAuth endpoint may answer with.
AuthBodyA == "{\"response\": {\"user\": {\"id\": \"1\"}, \"access_token\": \"a1\", \"refresh_token\": \"r1\"}}"
AuthBodyB == "{\"response\": {\"user\": {\"id\": \"2\"}, \"access_token\": \"a2\", \"refresh_token\": \"r2\"}}"
AuthBodyNoRefresh == "{\"response\": {\"user\": {\"id\": \"2\"}, \"access_token\": \"a2\"}}"
AuthBodyNoAccess == "{\"response\": {\"user\": {\"id\": \"2\"}}}"
AuthBodyNoUser == "{\"response\": {}}"
AuthBodyNoResponse == "{\"has_error\": true}"
AuthBodyNullResponse == "{\"response\": null}"

\* Bodies the API endpoints may answer with.
BodyNotJson == "not json"
BodyEmpty == ""
BodyEmptyObject == "{}"
NextUrl == "https://app-api.pixiv.net/v1/x?offset=30&max_bookmark_id_for_recommend=5&min_bookmark_id_for_recent_illust=7"
BodyFull == "{\"illusts\": [{\"id\": 9}], \"ranking_illusts\": [{\"id\": 8}], \"illust\": {\"id\": 9}, \"comments\": [{\"id\": 4}], \"trend_tags\": [{\"illust\": {\"id\": 9}, \"tag\": \"a\", \"translated_name\": \"b\"}], \"bookmark_detail\": {\"is_bookmarked\": true, \"restrict\": \"public\", \"tags\": []}, \"next_url\": \"https://app-api.pixiv.net/v1/x?offset=30&max_bookmark_id_for_recommend=5&min_bookmark_id_for_recent_illust=7\", \"search_span_limit\": 31536000, \"total_comments\": 1, \"contest_exists\": false}"
BodyLastPage == "{\"illusts\": [], \"ranking_illusts\": [], \"comments\": [], \"next_url\": null, \"search_span_limit\": 31536000, \"total_comments\": 0, \"contest_exists\": false}"

UserA == Dict("id" ::= Str("1"))
UserB == Dict("id" ::= Str("2"))

\* json.loads on the bodies above: the decoded value, or JSONDecodeError.
Decoded(v) == [exc |-> "", value |-> v]
JSONDecodeError == [exc |-> "JSONDecodeError", value |-> None]

json_loads(text) ==
    CASE text = AuthBodyA ->
            Decoded(Dict("response" ::= Dict(("user" ::= UserA)
                         ++ ("access_token" ::= Str("a1"))
                         ++ ("refresh_token" ::= Str("r1")))))
      [] text = AuthBodyB ->
            Decoded(Dict("response" ::= Dict(("user" ::= UserB)
                         ++ ("access_token" ::= Str("a2"))
                         ++ ("refresh_token" ::= Str("r2")))))
      [] text = AuthBodyNoRefresh ->
            Decoded(Dict("response" ::= Dict(("user" ::= UserB)
                         ++ ("access_token" ::= Str("a2")))))
      [] text = AuthBodyNoAccess ->
            Decoded(Dict("response" ::= Dict("user" ::= UserB)))
      [] text = AuthBodyNoUser ->
            Decoded(Dict("response" ::= Dict(EmptyDict)))
      [] text = AuthBodyNoResponse ->
            Decoded(Dict("has_error" ::= PyBool(TRUE)))
      [] text = AuthBodyNullResponse ->
            Decoded(Dict("response" ::= None))
      [] text = BodyEmptyObject ->
            Decoded(Dict(EmptyDict))
      [] text = BodyFull ->
            Decoded(Dict(("illusts" ::= List(<<Dict("id" ::= PyInt(9))>>))
                         ++ ("ranking_illusts" ::= List(<<Dict("id" ::= PyInt(8))>>))
                         ++ ("illust" ::= Dict("id" ::= PyInt(9)))
                         ++ ("comments" ::= List(<<Dict("id" ::= PyInt(4))>>))
                         ++ ("trend_tags" ::=
                               List(<<Dict(("illust" ::= Dict("id" ::= PyInt(9)))
                                           ++ ("tag" ::= Str("a"))
                                           ++ ("translated_name" ::= Str("b")))>>))
                         ++ ("bookmark_detail" ::=
                               Dict(("is_bookmarked" ::= PyBool(TRUE))
                                    ++ ("restrict" ::= Str("public"))
                                    ++ ("tags" ::= List(<<>>))))
                         ++ ("next_url" ::= Str(NextUrl))
                         ++ ("search_span_limit" ::= PyInt(31536000))
                         ++ ("total_comments" ::= PyInt(1))
                         ++ ("contest_exists" ::= PyBool(FALSE))))
      [] text = BodyLastPage ->
            Decoded(Dict(("illusts" ::= List(<<>>))
                         ++ ("ranking_illusts" ::= List(<<>>))
                         ++ ("comments" ::= List(<<>>))
                         ++ ("next_url" ::= None)
                         ++ ("search_span_limit" ::= PyInt(31536000))
                         ++ ("total_comments" ::= PyInt(0))
                         ++ ("contest_exists" ::= PyBool(FALSE))))
      [] OTHER -> JSONDecodeError

\* What requests does with a params= or data= dict (merge_setting and
\* PreparedRequest._encode_params): a key whose value is None is dropped; a
\* list or tuple value contributes one pair per element that is not None; any
\* other value contributes one pair. The result is the set of key/value pairs
\* that go out on the wire.
Elements(v) ==
    IF v.t \in {"list", "tuple"}
    THEN {v.v[i] : i \in 1..Len(v.v)}
    ELSE {v}

EncodeParams(d) ==
    UNION {{<<k, PyStr(e)>> : e \in Elements(d[k]) \ {None}} :
           k \in {x \in DOMAIN d : d[x] # None}}

\* What Session.request sends: the session's default headers overlaid with
\* the call's own, the encoded query string and the encoded form body.
MergeHeaders(h, extra) ==
    [k \in DOMAIN h \cup DOMAIN extra |-> IF k \in DOMAIN extra THEN extra[k] ELSE h[k]]

SessionRequest(sessionHeaders, method, url, params, extraHeaders, data) ==
    [method |-> method, url |-> url,
     params |-> EncodeParams(params),
     headers |-> MergeHeaders(sessionHeaders, extraHeaders),
     data |-> EncodeParams(data)]

NoRequest ==
    [method |-> "", url |-> "", params |-> {}, headers |-> EmptyDict, data |-> {}]

-----------------------------------------------------------------------------
(* Client._request_json *)

\* Variant: the body is decoded before the status is looked at.
request_json_result_parse_first(rsp) ==
    IF rsp.fail
    THEN Raise("RequestException", <<>>)
    ELSE LET j == json_loads(rsp.text)
         IN  IF j.exc = "JSONDecodeError"
             THEN Raise("BadApiResponse", <<>>)
             ELSE IF rsp.status_code \div 100 = 4
             THEN Raise("BadApiResponse",
                        <<"Status code: " \o ToString(rsp.status_code), rsp.text>>)
             ELSE Return(j.value)

\* Variant: the decode error carries the body text.
request_json_result_with_body(rsp) ==
    IF rsp.fail
    THEN Raise("RequestException", <<>>)
    ELSE IF rsp.status_code \div 100 = 4
         THEN Raise("BadApiResponse",
                    <<"Status code: " \o ToString(rsp.status_code), rsp.text>>)
         ELSE LET j == json_loads(rsp.text)
              IN  IF j.exc = "JSONDecodeError"
                  THEN Raise("BadApiResponse", <<rsp.text>>)
                  ELSE Return(j.value)

\* Variant: every status from 400 up is an error.
request_json_result_raise_for_status(rsp) ==
    IF rsp.fail
    THEN Raise("RequestException", <<>>)
    ELSE IF rsp.status_code >= 400
         THEN Raise("BadApiResponse",
                    <<"Status code: " \o ToString(rsp.status_code), rsp.text>>)
         ELSE LET j == json_loads(rsp.text)
              IN  IF j.exc = "JSONDecodeError"
                  THEN Raise("BadApiResponse", <<>>)
                  ELSE Return(j.value)

\* The part of _request_json after session.request has answered with rsp:
\* the value returned or the error raised.
request_json_result(rsp) ==
    IF rsp.fail
    THEN Raise("RequestException", <<>>)
    ELSE IF rsp.status_code \div 100 = 4
         THEN Raise("BadApiResponse",
                    <<"Status code: " \o ToString(rsp.status_code), rsp.text>>)
         ELSE LET j == json_loads(rsp.text)
              IN  IF j.exc = "JSONDecodeError"
                  THEN Raise("BadApiResponse", <<>>)
                  ELSE Return(j.value)

-----------------------------------------------------------------------------
(* Client._make_auth_request *)

\* The body of the try block, run on the transport's answer rsp from the
\* client state cs = [account, access_token, refresh_token, headers]. Each
\* assignment is committed as it executes; exc names the exception that
\* ended the block ("" when it ran to its end).
AuthState(acc, at, rt, h, exc) ==
    [account |-> acc, access_token |-> at, refresh_token |-> rt,
     headers |-> h, exc |-> exc]

\* Variant: the header is set with setdefault, so a later login keeps the
\* first bearer token.
set_authorization_keep_first(h, token) ==
    IF "Authorization" \in DOMAIN h THEN h
    ELSE Update(h, "Authorization", Str("Bearer " \o PyStr(token)))

\* self.session.headers.update({'Authorization': f'Bearer {self.access_token}'})
set_authorization(h, token) ==
    Update(h, "Authorization", Str("Bearer " \o PyStr(token)))

auth_try_block(cs, rsp) ==
    IF rsp.fail
    THEN AuthState(cs.account, cs.access_token, cs.refresh_token, cs.headers,
                   "RequestException")
    ELSE
    LET r == json_loads(rsp.text)
        r1 == GetItem(r.value, "response")
        user == GetItem(r1.value, "user")
        r2 == GetItem(r.value, "response")
        at == GetItem(r2.value, "access_token")
        r3 == GetItem(r.value, "response")
        rt == GetItem(r3.value, "refresh_token")
    IN  IF r.exc # ""
        THEN AuthState(cs.account, cs.access_token, cs.refresh_token,
                       cs.headers, r.exc)
        ELSE IF r1.exc # ""
        THEN AuthState(cs.account, cs.access_token, cs.refresh_token,
                       cs.headers, r1.exc)
        ELSE IF user.exc # ""
        THEN AuthState(cs.account, cs.access_token, cs.refresh_token,
                       cs.headers, user.exc)
        \* self.account = Struct(r['response']['user'])
        ELSE IF at.exc # ""
        THEN AuthState(Struct(user.value), cs.access_token, cs.refresh_token,
                       cs.headers, at.exc)
        \* self.access_token = r['response']['access_token']
        ELSE IF rt.exc # ""
        THEN AuthState(Struct(user.value), at.value, cs.refresh_token,
                       cs.headers, rt.exc)
        \* self.refresh_token = r['response']['refresh_token']
        ELSE AuthState(Struct(user.value), at.value, rt.value,
                       set_authorization(cs.headers, at.value), "")

\* except (RequestException, JSONDecodeError, KeyError) as e: raise LoginError
AuthCaught == {"RequestException", "JSONDecodeError", "KeyError"}

auth_outcome(exc) ==
    IF exc = "" THEN Return(None)
    ELSE IF exc \in AuthCaught THEN Raise("LoginError", <<>>)
    ELSE Raise(exc, <<>>)

\* The form body of the grant request.
auth_data(grant) ==
    [k \in {"client_id", "client_secret", "get_secure_url"} \cup DOMAIN grant |->
        IF k \in DOMAIN grant THEN grant[k]
        ELSE IF k = "client_id" THEN DefaultClientId
        ELSE IF k = "client_secret" THEN DefaultClientSecret
        ELSE PyInt(1)]

-----------------------------------------------------------------------------
(* Building the values the endpoint methods return *)

\* An intermediate result: a value, or the exception that ended evaluation.
Val(v) == [exc |-> "", value |-> v]
Exc(e) == [exc |-> e, value |-> None]

\* self, as held by the model instances a method builds.
Self == Str("self")

\* [Illustration(**illust, client=self) for illust in lst]: lst must be
\* iterable and every element a mapping.
Illustrations(lst, client) ==
    IF lst.t = "list"
    THEN IF \A i \in 1..Len(lst.v) : lst.v[i].t = "dict"
         THEN Val(List([i \in 1..Len(lst.v) |-> Illustration(lst.v[i].v, client)]))
         ELSE Exc("TypeError")
    ELSE IF lst.t \in {"dict", "str", "tuple"} /\ ~Truthy(lst)
    THEN Val(List(<<>>))
    ELSE Exc("TypeError")

\* [Comment(**comment, client=self) for comment in lst]
Comments(lst, client) ==
    IF lst.t = "list"
    THEN IF \A i \in 1..Len(lst.v) : lst.v[i].t = "dict"
         THEN Val(List([i \in 1..Len(lst.v) |-> Comment(lst.v[i].v, client)]))
         ELSE Exc("TypeError")
    ELSE IF lst.t \in {"dict", "str", "tuple"} /\ ~Truthy(lst)
    THEN Val(List(<<>>))
    ELSE Exc("TypeError")

\* Visibility(value): the member with that value, or ValueError.
Visibility(v) ==
    IF v = Str("public") THEN Val(Visibility_PUBLIC) ELSE Exc("ValueError")

\* A method's ending from an intermediate result.
Finish(r) == IF r.exc = "" THEN Return(r.value) ELSE Raise(r.exc, <<>>)

\* {'illustrations': [...], 'next': parse_qs(response['next_url'], 'offset')}
\* as built by fetch_illustration_related, fetch_illustrations_following and
\* fetch_illustrations_ranking.
illustrations_page(rsp) ==
    LET il == GetItem(rsp, "illusts")
        ils == Illustrations(il.value, Self)
        nu == GetItem(rsp, "next_url")
    IN  IF il.exc # "" THEN Exc(il.exc)
        ELSE IF ils.exc # "" THEN Exc(ils.exc)
        ELSE IF nu.exc # "" THEN Exc(nu.exc)
        ELSE Val(Dict(("illustrations" ::= ils.value)
                      ++ ("next" ::= parse_qs(nu.value, "offset"))))

-----------------------------------------------------------------------------
(* State after construction, and the shape shared by the public methods *)

NoCall == [op |-> "", args |-> EmptyDict]
NoOutcome == [kind |-> "none", exc |-> "", args |-> <<>>, value |-> None]

\* The locals of a thread that has made no call yet: the method it called,
\* the body it was answered with, r, the access token it read back from the
\* client for the header, and how its call ended.
NoFrame == [op |-> "", text |-> "", r |-> None, token |-> None, outcome |-> NoOutcome]

Languages == {Str("English"), Str("")}

\* Variant: the constructor already installs an Authorization header built
\* from the unset token.
init_client_with_bearer(lang) ==
    [account |-> None, access_token |-> None, refresh_token |-> None,
     headers |-> Update(IF Truthy(lang)
                        THEN Update(HEADERS, "Accept-Language", lang)
                        ELSE HEADERS,
                        "Authorization", Str("Bearer " \o PyStr(None)))]

\* Client.__init__: the attributes and session headers of a new client.
init_client(lang) ==
    [account |-> None, access_token |-> None, refresh_token |-> None,
     headers |-> IF Truthy(lang)
                 THEN Update(HEADERS, "Accept-Language", lang)
                 ELSE HEADERS]

Init ==
    /\ language \in Languages
    /\ account = init_client(language).account
    /\ access_token = init_client(language).access_token
    /\ refresh_token = init_client(language).refresh_token
    /\ headers = init_client(language).headers
    /\ call = NoCall
    /\ request = NoRequest
    /\ response = NoResponse
    /\ outcome = NoOutcome
    /\ nCalls = 0
    /\ nPassed = 0
    /\ nRequests = 0
    /\ loggedIn = FALSE
    /\ pc = [t \in Threads |-> "idle"]
    /\ frame = [t \in Threads |-> NoFrame]
    /\ overlapped = FALSE
    /\ raised = FALSE

\* Answers of the API endpoints and of the OAuth endpoint.
ApiStatuses == {200, 399, 400, 404, 499, 500}
ApiBodies == {BodyNotJson, BodyEmpty, BodyEmptyObject, BodyFull, BodyLastPage}
ApiResponses ==
    {Response(st, b) : st \in ApiStatuses, b \in ApiBodies} \cup {TransportFailure}

\* Answers the endpoint methods are exercised with: one status of each class
\* the wrapper tells apart, with each body.
EndpointResponses ==
    {Response(st, b) : st \in {200, 404, 500},
                       b \in {BodyNotJson, BodyEmptyObject, BodyFull, BodyLastPage}}
    \cup {TransportFailure}

AuthResponses ==
    {Response(200, b) : b \in {AuthBodyA, AuthBodyB, AuthBodyNoRefresh,
                               AuthBodyNoAccess, AuthBodyNoUser,
                               AuthBodyNullResponse, BodyNotJson}}
    \cup {Response(400, b) : b \in {AuthBodyNoResponse, BodyEmpty}}
    \cup {TransportFailure}

\* Argument values the calls are made with.
Offsets == {None, PyInt(30)}
Durations == {None, Duration_LAST_DAY}
Dates == {None, Str("2019-01-01")}
BookmarkIds == {None, PyInt(5)}
IdLists == {None, List(<<PyInt(1), PyInt(2)>>)}
Tags == {None, Str("tag")}
Bools == {PyBool(FALSE), PyBool(TRUE)}
ContentTypes == {None, ContentType_ILLUSTRATION}
AnId == PyInt(9)

-----------------------------------------------------------------------------
(* The endpoint methods: for each, the params (or data) dict it hands to
   _request_json and the value it builds from the decoded response *)

\* ---- search_illustrations
search_illustrations_params(word, search_target, sort, duration, offset) ==
    ("word" ::= word)
    ++ ("search_target" ::= Value(search_target))
    ++ ("sort" ::= Value(sort))
    ++ ("duration" ::= IF Truthy(duration) THEN Value(duration) ELSE None)
    ++ ("offset" ::= offset)
    ++ ("filter" ::= FILTER)

search_illustrations_result(rsp) ==
    LET page == illustrations_page(rsp)
        ssl == GetItem(rsp, "search_span_limit")
    IN  IF page.exc # "" THEN Raise(page.exc, <<>>)
        ELSE IF ssl.exc # "" THEN Raise(ssl.exc, <<>>)
        ELSE Return(Dict(page.value.v ++ ("search_span_limit" ::= ssl.value)))

\* ---- fetch_illustration
fetch_illustration_params(illustration_id) == "illust_id" ::= illustration_id

fetch_illustration_result(rsp) ==
    LET il == GetItem(rsp, "illust")
    IN  IF il.exc # "" THEN Raise(il.exc, <<>>)
        ELSE IF il.value.t # "dict" THEN Raise("TypeError", <<>>)
        ELSE Return(Illustration(il.value.v, Self))

\* ---- fetch_illustration_comments
fetch_illustration_comments_params(illustration_id, offset, include_total_comments) ==
    ("illust_id" ::= illustration_id)
    ++ ("offset" ::= offset)
    ++ ("include_total_comments" ::= format_bool(include_total_comments))

fetch_illustration_comments_result(rsp) ==
    LET c == GetItem(rsp, "comments")
        cs == Comments(c.value, Self)
        nu == GetItem(rsp, "next_url")
        tc == GetItem(rsp, "total_comments")
    IN  IF c.exc # "" THEN Raise(c.exc, <<>>)
        ELSE IF cs.exc # "" THEN Raise(cs.exc, <<>>)
        ELSE IF nu.exc # "" THEN Raise(nu.exc, <<>>)
        ELSE IF tc.exc # "" THEN Raise(tc.exc, <<>>)
        ELSE Return(Dict(("comments" ::= cs.value)
                         ++ ("next" ::= parse_qs(nu.value, "offset"))
                         ++ ("total_comments" ::= tc.value)))

\* ---- fetch_illustration_related
fetch_illustration_related_params(illustration_id, offset) ==
    ("illust_id" ::= illustration_id) ++ ("offset" ::= offset)

fetch_illustration_related_result(rsp) == Finish(illustrations_page(rsp))

\* ---- fetch_illustrations_following
fetch_illustrations_following_params(visibility, offset) ==
    "restrict" ::= Value(visibility)

fetch_illustrations_following_result(rsp) == Finish(illustrations_page(rsp))

\* ---- fetch_illustrations_recommended
\* if bookmark_illust_ids: bookmark_illust_ids = ','.join(str(bid) for ...)
RECURSIVE join(_, _)
join(sep, seq) ==
    IF Len(seq) = 0 THEN ""
    ELSE IF Len(seq) = 1 THEN PyStr(seq[1])
    ELSE PyStr(seq[1]) \o sep \o join(sep, Tail(seq))

\* Variant: the wrapped bookmark id is formatted as a string first.
fetch_illustrations_recommended_params_str(content_type, include_ranking_illustrations, max_bookmark_id_for_recommend, min_bookmark_id_for_recent_illustrations, offset, bookmark_illust_ids, include_ranking_label) ==
    ("content_type" ::= Value(content_type))
    ++ ("include_ranking_label" ::= format_bool(include_ranking_label))
    ++ ("max_bookmark_id_for_recommend" ::= max_bookmark_id_for_recommend)
    ++ ("min_bookmark_id_for_recent_illust" ::=
            Tuple(<<Str(PyStr(min_bookmark_id_for_recent_illustrations))>>))
    ++ ("offset" ::= offset)
    ++ ("include_ranking_illusts" ::= format_bool(include_ranking_illustrations))
    ++ ("bookmark_illust_ids" ::=
            IF Truthy(bookmark_illust_ids)
            THEN Str(join(",", bookmark_illust_ids.v))
            ELSE bookmark_illust_ids)

fetch_illustrations_recommended_params(content_type, include_ranking_illustrations, max_bookmark_id_for_recommend, min_bookmark_id_for_recent_illustrations, offset, bookmark_illust_ids, include_ranking_label) ==
    ("content_type" ::= Value(content_type))
    ++ ("include_ranking_label" ::= format_bool(include_ranking_label))
    ++ ("max_bookmark_id_for_recommend" ::= max_bookmark_id_for_recommend)
    ++ ("min_bookmark_id_for_recent_illust" ::=
            Tuple(<<min_bookmark_id_for_recent_illustrations>>))
    ++ ("offset" ::= offset)
    ++ ("include_ranking_illusts" ::= format_bool(include_ranking_illustrations))
    ++ ("bookmark_illust_ids" ::=
            IF Truthy(bookmark_illust_ids)
            THEN Str(join(",", bookmark_illust_ids.v))
            ELSE bookmark_illust_ids)

fetch_illustrations_recommended_result(rsp) ==
    LET ce == GetItem(rsp, "contest_exists")
        il == GetItem(rsp, "illusts")
        ils == Illustrations(il.value, Self)
        nu == GetItem(rsp, "next_url")
        rk == GetItem(rsp, "ranking_illusts")
        rks == Illustrations(rk.value, Self)
    IN  IF ce.exc # "" THEN Raise(ce.exc, <<>>)
        ELSE IF il.exc # "" THEN Raise(il.exc, <<>>)
        ELSE IF ils.exc # "" THEN Raise(ils.exc, <<>>)
        ELSE IF nu.exc # "" THEN Raise(nu.exc, <<>>)
        ELSE IF rk.exc # "" THEN Raise(rk.exc, <<>>)
        ELSE IF rks.exc # "" THEN Raise(rks.exc, <<>>)
        ELSE Return(Dict(
            ("contest_exists" ::= ce.value)
            ++ ("illustrations" ::= ils.value)
            ++ ("next" ::= Dict(
                  ("min_bookmark_id_for_recent_illustrations" ::=
                      parse_qs(nu.value, "min_bookmark_id_for_recent_illust"))
                  ++ ("max_bookmark_id_for_recommend" ::=
                      parse_qs(nu.value, "max_bookmark_id_for_recommend"))
                  ++ ("offset" ::= parse_qs(nu.value, "offset"))))
            ++ ("ranking_illustrations" ::= rks.value)))

\* ---- fetch_illustrations_ranking
fetch_illustrations_ranking_params(mode, date, offset) ==
    ("mode" ::= Value(mode)) ++ ("date" ::= date) ++ ("offset" ::= offset)
    ++ ("filter" ::= FILTER)

fetch_illustrations_ranking_result(rsp) == Finish(illustrations_page(rsp))

\* ---- fetch_trending_tags
fetch_trending_tags_params == "filter" ::= FILTER

\* One entry of the returned list, built from one element of trend_tags.
trending_entry(trending) ==
    LET il == GetItem(trending, "illust")
        tag == GetItem(trending, "tag")
        tn == GetItem(trending, "translated_name")
    IN  IF il.exc # "" THEN Exc(il.exc)
        ELSE IF il.value.t # "dict" THEN Exc("TypeError")
        ELSE IF tag.exc # "" THEN Exc(tag.exc)
        ELSE IF tn.exc # "" THEN Exc(tn.exc)
        ELSE Val(Dict(("illustration" ::= Illustration(il.value.v, None))
                      ++ ("tag" ::= tag.value)
                      ++ ("translated_name" ::= tn.value)))

fetch_trending_tags_result(rsp) ==
    LET tt == GetItem(rsp, "trend_tags")
    IN  IF tt.exc # "" THEN Raise(tt.exc, <<>>)
        ELSE IF tt.value.t # "list" THEN Raise("TypeError", <<>>)
        ELSE IF \E i \in 1..Len(tt.value.v) : trending_entry(tt.value.v[i]).exc # ""
        THEN Raise(trending_entry(tt.value.v[
                CHOOSE i \in 1..Len(tt.value.v) :
                    /\ trending_entry(tt.value.v[i]).exc # ""
                    /\ \A j \in 1..(i - 1) : trending_entry(tt.value.v[j]).exc = ""]).exc,
                <<>>)
        ELSE Return(List([i \in 1..Len(tt.value.v) |->
                            trending_entry(tt.value.v[i]).value]))

\* ---- fetch_bookmark
fetch_bookmark_params(illustration_id) == "illust_id" ::= illustration_id

fetch_bookmark_result(rsp) ==
    LET bd == GetItem(rsp, "bookmark_detail")
        ib == GetItem(bd.value, "is_bookmarked")
        re == GetItem(bd.value, "restrict")
        vis == Visibility(re.value)
        tags == GetItem(bd.value, "tags")
    IN  IF bd.exc # "" THEN Raise(bd.exc, <<>>)
        ELSE IF ib.exc # "" THEN Raise(ib.exc, <<>>)
        ELSE IF re.exc # "" THEN Raise(re.exc, <<>>)
        ELSE IF vis.exc # "" THEN Raise(vis.exc, <<>>)
        ELSE IF tags.exc # "" THEN Raise(tags.exc, <<>>)
        ELSE Return(Dict(("is_bookmarked" ::= ib.value)
                         ++ ("visibility" ::= vis.value)
                         ++ ("tags" ::= tags.value)))

\* ---- add_bookmark, delete_bookmark: the response is discarded
add_bookmark_data(illustration_id, visibility) ==
    ("illust_id" ::= illustration_id) ++ ("restrict" ::= Value(visibility))

delete_bookmark_data(illustration_id) == "illust_id" ::= illustration_id

discard_result(rsp) == Return(None)

\* ---- the methods that return Struct(response)
struct_result(rsp) == Return(Struct(rsp))

fetch_user_params(user_id) == ("user_id" ::= user_id) ++ ("filter" ::= FILTER)

fetch_user_illustrations_params(user_id, type_, offset) ==
    ("user_id" ::= user_id)
    ++ ("type" ::= IF Truthy(type_) THEN Value(type_) ELSE None)
    ++ ("offset" ::= offset)
    ++ ("filter" ::= FILTER)

fetch_user_bookmarks_params(user_id, visibility, max_bookmark_id, tag) ==
    ("user_id" ::= user_id)
    ++ ("restrict" ::= Value(visibility))
    ++ ("max_bookmark_id" ::= max_bookmark_id)
    ++ ("tag" ::= tag)

fetch_user_bookmark_tags_params(visibility, offset) ==
    ("restrict" ::= Value(visibility)) ++ ("offset" ::= offset)

fetch_following_params(user_id, visibility, offset) ==
    ("user_id" ::= user_id) ++ ("restrict" ::= Value(visibility))
    ++ ("offset" ::= offset)

fetch_followers_params(user_id, offset) ==
    ("user_id" ::= user_id) ++ ("offset" ::= offset) ++ ("filter" ::= FILTER)

fetch_my_pixiv_params(user_id, offset) ==
    ("user_id" ::= user_id) ++ ("offset" ::= offset) ++ ("filter" ::= FILTER)

\* _request_json called directly returns the value to its caller.
PassThrough(v) == Return(v)

\* What the method called op builds from the value v that _request_json
\* returned to it.
method_result(op, v) ==
    CASE op = "search_illustrations" -> search_illustrations_result(v)
      [] op = "fetch_illustration" -> fetch_illustration_result(v)
      [] op = "fetch_illustration_comments" -> fetch_illustration_comments_result(v)
      [] op = "fetch_illustration_related" -> fetch_illustration_related_result(v)
      [] op = "fetch_illustrations_following" -> fetch_illustrations_following_result(v)
      [] op = "fetch_illustrations_recommended" -> fetch_illustrations_recommended_result(v)
      [] op = "fetch_illustrations_ranking" -> fetch_illustrations_ranking_result(v)
      [] op = "fetch_trending_tags" -> fetch_trending_tags_result(v)
      [] op = "fetch_bookmark" -> fetch_bookmark_result(v)
      [] op \in {"add_bookmark", "delete_bookmark"} -> discard_result(v)
      [] op = "_request_json" -> PassThrough(v)
      [] OTHER -> struct_result(v)

-----------------------------------------------------------------------------
(* The public methods as calls *)

\* Variant: a transport failure is retried once.
request_json_requests_retry(rsp) == IF rsp.fail THEN 2 ELSE 1

\* How many times one _request_json call and one _make_auth_request call
\* invoke session.request.
request_json_requests(rsp) == 1
make_auth_request_requests(rsp) == 1

\* A method built on _request_json: the require_auth gate when the method is
\* decorated, then one _request_json call, then what it builds from the value it
\* was returned. No attribute of the client is assigned.
Endpoint(op, gated, args, method, url, params, data, responses) ==
    /\ nCalls < MaxCalls
    /\ nCalls' = nCalls + 1
    /\ call' = [op |-> op, args |-> args]
    /\ UNCHANGED <<language, account, access_token, refresh_token, headers, loggedIn>>
    /\ UNCHANGED threadVars
    /\ IF gated /\ ~require_auth(access_token)
       THEN /\ outcome' = Raise("AuthenticationRequired", <<>>)
            /\ request' = NoRequest
            /\ response' = NoResponse
            /\ UNCHANGED <<nPassed, nRequests>>
       ELSE \E rsp \in responses :
            LET rj == request_json_result(rsp)
            IN  /\ request' = SessionRequest(headers, method, url, params, EmptyDict, data)
                /\ response' = rsp
                /\ nPassed' = nPassed + 1
                /\ nRequests' = nRequests + request_json_requests(rsp)
                /\ outcome' = IF rj.kind = "return" THEN method_result(op, rj.value) ELSE rj

-----------------------------------------------------------------------------
(* login, authenticate *)

\* _make_auth_request(data) as called by login and authenticate.
make_auth_request(op, args, grant) ==
    /\ nCalls < MaxCalls
    /\ \E rsp \in AuthResponses :
        LET st == auth_try_block([account |-> account, access_token |-> access_token,
                                  refresh_token |-> refresh_token, headers |-> headers],
                                 rsp)
        IN  /\ request' = SessionRequest(headers, "post", AUTH_URL, EmptyDict,
                                         EmptyDict, auth_data(grant))
            /\ response' = rsp
            /\ account' = st.account
            /\ access_token' = st.access_token
            /\ refresh_token' = st.refresh_token
            /\ headers' = st.headers
            /\ outcome' = auth_outcome(st.exc)
            /\ loggedIn' = (loggedIn \/ st.exc = "")
            /\ nRequests' = nRequests + make_auth_request_requests(rsp)
    /\ call' = [op |-> op, args |-> args]
    /\ nCalls' = nCalls + 1
    /\ nPassed' = nPassed + 1
    /\ UNCHANGED language
    /\ UNCHANGED threadVars

login ==
    \E username \in {Str("user")}, password \in {Str("secret")} :
        make_auth_request("login",
            ("username" ::= username) ++ ("password" ::= password),
            ("grant_type" ::= Str("password")) ++ ("username" ::= username)
                ++ ("password" ::= password))

authenticate ==
    \E token \in {Str("r1")} :
        make_auth_request("authenticate",
            ("refresh_token" ::= token),
            ("grant_type" ::= Str("refresh_token")) ++ ("refresh_token" ::= token))

-----------------------------------------------------------------------------
(* _request_json called directly, and download *)

request_json ==
    Endpoint("_request_json", FALSE, EmptyDict, "get", BASE_URL \o "/v1/x",
             EmptyDict, EmptyDict, ApiResponses)

\* download: one streamed GET with a Referer header, then the body is
\* written to destination, whose open() may fail.
DownloadEndings == {"", "FileNotFoundError", "PermissionError"}

download ==
    /\ nCalls < MaxCalls
    /\ \E rsp \in {Response(200, BodyNotJson), TransportFailure},
          ending \in DownloadEndings :
        /\ request' = SessionRequest(headers, "get", "https://i.pximg.net/img/9.png",
                                     EmptyDict,
                                     ("Referer" ::= Str("https://pixiv.net")),
                                     EmptyDict)
        /\ response' = rsp
        /\ outcome' = IF rsp.fail THEN Raise("RequestException", <<>>)
                      ELSE IF ending # "" THEN Raise(ending, <<>>)
                      ELSE Return(None)
    /\ call' = [op |-> "download", args |-> EmptyDict]
    /\ nCalls' = nCalls + 1
    /\ nPassed' = nPassed + 1
    /\ nRequests' = nRequests + 1
    /\ UNCHANGED <<language, account, access_token, refresh_token, headers, loggedIn>>
    /\ UNCHANGED threadVars

-----------------------------------------------------------------------------
(* The endpoint methods *)

search_illustrations ==
    \E duration \in Durations, offset \in Offsets :
        Endpoint("search_illustrations", TRUE,
                 ("word" ::= Str("cat")) ++ ("duration" ::= duration) ++ ("offset" ::= offset),
                 "get", BASE_URL \o "/v1/search/illust",
                 search_illustrations_params(Str("cat"), SearchTarget_TAGS_PARTIAL,
                                             Sort_DATE_DESC, duration, offset),
                 EmptyDict, EndpointResponses)

fetch_illustration ==
    Endpoint("fetch_illustration", TRUE, ("illustration_id" ::= AnId),
             "get", BASE_URL \o "/v1/illust/detail",
             fetch_illustration_params(AnId), EmptyDict, EndpointResponses)

fetch_illustration_comments ==
    \E offset \in Offsets, include_total_comments \in Bools :
        Endpoint("fetch_illustration_comments", TRUE,
                 ("illustration_id" ::= AnId) ++ ("offset" ::= offset)
                     ++ ("include_total_comments" ::= include_total_comments),
                 "get", BASE_URL \o "/v1/illust/comments",
                 fetch_illustration_comments_params(AnId, offset, include_total_comments),
                 EmptyDict, EndpointResponses)

fetch_illustration_related ==
    \E offset \in Offsets :
        Endpoint("fetch_illustration_related", TRUE,
                 ("illustration_id" ::= AnId) ++ ("offset" ::= offset),
                 "get", BASE_URL \o "/v2/illust/related",
                 fetch_illustration_related_params(AnId, offset),
                 EmptyDict, EndpointResponses)

fetch_illustrations_following ==
    \E offset \in Offsets :
        Endpoint("fetch_illustrations_following", TRUE,
                 ("visibility" ::= Visibility_PUBLIC) ++ ("offset" ::= offset),
                 "get", BASE_URL \o "/v2/illust/follow",
                 fetch_illustrations_following_params(Visibility_PUBLIC, offset),
                 EmptyDict, EndpointResponses)

fetch_illustrations_recommended ==
    \E max_id \in BookmarkIds, min_id \in BookmarkIds, offset \in Offsets,
       ids \in IdLists :
        Endpoint("fetch_illustrations_recommended", TRUE,
                 ("max_bookmark_id_for_recommend" ::= max_id)
                     ++ ("min_bookmark_id_for_recent_illustrations" ::= min_id)
                     ++ ("offset" ::= offset) ++ ("bookmark_illust_ids" ::= ids),
                 "get", BASE_URL \o "/v1/illust/recommended",
                 fetch_illustrations_recommended_params(ContentType_ILLUSTRATION,
                     PyBool(FALSE), max_id, min_id, offset, ids, PyBool(TRUE)),
                 EmptyDict, EndpointResponses)

fetch_illustrations_ranking ==
    \E date \in Dates, offset \in Offsets :
        Endpoint("fetch_illustrations_ranking", TRUE,
                 ("date" ::= date) ++ ("offset" ::= offset),
                 "get", BASE_URL \o "/v1/illust/ranking",
                 fetch_illustrations_ranking_params(RankingMode_DAY, date, offset),
                 EmptyDict, EndpointResponses)

fetch_trending_tags ==
    Endpoint("fetch_trending_tags", TRUE, EmptyDict,
             "get", BASE_URL \o "/v1/trending-tags/illust",
             fetch_trending_tags_params, EmptyDict, EndpointResponses)

fetch_bookmark ==
    Endpoint("fetch_bookmark", TRUE, ("illustration_id" ::= AnId),
             "get", BASE_URL \o "/v2/illust/bookmark/detail",
             fetch_bookmark_params(AnId), EmptyDict, EndpointResponses)

add_bookmark ==
    Endpoint("add_bookmark", TRUE, ("illustration_id" ::= AnId),
             "post", BASE_URL \o "/v2/illust/bookmark/add",
             EmptyDict, add_bookmark_data(AnId, Visibility_PUBLIC), EndpointResponses)

delete_bookmark ==
    Endpoint("delete_bookmark", TRUE, ("illustration_id" ::= AnId),
             "post", BASE_URL \o "/v1/illust/bookmark/delete",
             EmptyDict, delete_bookmark_data(AnId), EndpointResponses)

fetch_user ==
    Endpoint("fetch_user", FALSE, ("user_id" ::= AnId),
             "get", BASE_URL \o "/v1/user/detail",
             fetch_user_params(AnId), EmptyDict, EndpointResponses)

fetch_user_illustrations ==
    \E type_ \in ContentTypes, offset \in Offsets :
        Endpoint("fetch_user_illustrations", FALSE,
                 ("user_id" ::= AnId) ++ ("type_" ::= type_) ++ ("offset" ::= offset),
                 "get", BASE_URL \o "/v1/user/illusts",
                 fetch_user_illustrations_params(AnId, type_, offset),
                 EmptyDict, EndpointResponses)

fetch_user_bookmarks ==
    \E max_bookmark_id \in BookmarkIds, tag \in Tags :
        Endpoint("fetch_user_bookmarks", TRUE,
                 ("user_id" ::= AnId) ++ ("max_bookmark_id" ::= max_bookmark_id)
                     ++ ("tag" ::= tag),
                 "get", BASE_URL \o "/v1/user/bookmarks/illust",
                 fetch_user_bookmarks_params(AnId, Visibility_PUBLIC, max_bookmark_id, tag),
                 EmptyDict, EndpointResponses)

fetch_user_bookmark_tags ==
    \E offset \in Offsets :
        Endpoint("fetch_user_bookmark_tags", TRUE,
                 ("visibility" ::= Visibility_PUBLIC) ++ ("offset" ::= offset),
                 "get", BASE_URL \o "/v1/user/bookmark-tags/illust",
                 fetch_user_bookmark_tags_params(Visibility_PUBLIC, offset),
                 EmptyDict, EndpointResponses)

fetch_following ==
    \E offset \in Offsets :
        Endpoint("fetch_following", TRUE,
                 ("user_id" ::= AnId) ++ ("offset" ::= offset),
                 "get", BASE_URL \o "/v1/user/following",
                 fetch_following_params(AnId, Visibility_PUBLIC, offset),
                 EmptyDict, EndpointResponses)

fetch_followers ==
    \E offset \in Offsets :
        Endpoint("fetch_followers", TRUE,
                 ("user_id" ::= AnId) ++ ("offset" ::= offset),
                 "get", BASE_URL \o "/v1/user/follower",
                 fetch_followers_params(AnId, offset), EmptyDict, EndpointResponses)

fetch_my_pixiv ==
    \E offset \in Offsets :
        Endpoint("fetch_my_pixiv", TRUE,
                 ("user_id" ::= AnId) ++ ("offset" ::= offset),
                 "get", BASE_URL \o "/v2/user/list",
                 fetch_my_pixiv_params(AnId, offset), EmptyDict, EndpointResponses)

-----------------------------------------------------------------------------
(* The client used from one thread: any public method, one call at a time *)

Next ==
    \/ login
    \/ authenticate
    \/ request_json
    \/ download
    \/ search_illustrations
    \/ fetch_illustration
    \/ fetch_illustration_comments
    \/ fetch_illustration_related
    \/ fetch_illustrations_following
    \/ fetch_illustrations_recommended
    \/ fetch_illustrations_ranking
    \/ fetch_trending_tags
    \/ fetch_bookmark
    \/ add_bookmark
    \/ delete_bookmark
    \/ fetch_user
    \/ fetch_user_illustrations
    \/ fetch_user_bookmarks
    \/ fetch_user_bookmark_tags
    \/ fetch_following
    \/ fetch_followers
    \/ fetch_my_pixiv

Spec == Init /\ [][Next]_vars

-----------------------------------------------------------------------------
(* The client shared by threads: login() and authenticate() called from
   several threads at once. Nothing in the client locks, so the calls
   interleave between the statements of _make_auth_request; a statement that
   reads or writes the client is one step. *)

\* What every step of a thread leaves alone.
callVars == <<language, call, request, response, outcome>>

\* The call of thread t ends in _make_auth_request's except clause or runs
\* past it: exc is the exception raised in the try block.
thread_raise(t, exc) ==
    /\ pc' = [pc EXCEPT ![t] = "idle"]
    /\ frame' = [frame EXCEPT ![t].outcome = auth_outcome(exc)]
    /\ raised' = TRUE

\* login() or authenticate() entered on thread t: session.request(...) sends
\* the grant request.
thread_send(t, op) ==
    /\ pc[t] = "idle"
    /\ nCalls < MaxCalls
    /\ pc' = [pc EXCEPT ![t] = "await"]
    /\ frame' = [frame EXCEPT ![t] = [NoFrame EXCEPT !.op = op]]
    /\ overlapped' = (overlapped \/ \E u \in Threads \ {t} : pc[u] # "idle")
    /\ nCalls' = nCalls + 1
    /\ nPassed' = nPassed + 1
    /\ nRequests' = nRequests + 1
    /\ UNCHANGED <<account, access_token, refresh_token, headers, loggedIn, raised>>
    /\ UNCHANGED callVars

thread_login(t) == thread_send(t, "login")

thread_authenticate(t) == thread_send(t, "authenticate")

\* r = self.session.request(...).json(): the transport answers (or fails)
\* and the body is decoded.
thread_receive(t) ==
    /\ pc[t] = "await"
    /\ \E rsp \in AuthResponses :
        LET j == IF rsp.fail THEN Exc("RequestException") ELSE json_loads(rsp.text)
        IN  /\ pc' = [pc EXCEPT ![t] = IF j.exc = "" THEN "store_account" ELSE "idle"]
            /\ frame' = [frame EXCEPT ![t].text = rsp.text, ![t].r = j.value,
                                      ![t].outcome = IF j.exc = "" THEN NoOutcome
                                                     ELSE auth_outcome(j.exc)]
            /\ raised' = (raised \/ j.exc # "")
    /\ UNCHANGED <<account, access_token, refresh_token, headers, loggedIn, overlapped>>
    /\ UNCHANGED <<nCalls, nPassed, nRequests>>
    /\ UNCHANGED callVars

\* self.account = Struct(r['response']['user'])
thread_store_account(t) ==
    /\ pc[t] = "store_account"
    /\ LET r1 == GetItem(frame[t].r, "response")
           user == GetItem(r1.value, "user")
           exc == IF r1.exc # "" THEN r1.exc ELSE user.exc
       IN  IF exc # ""
           THEN thread_raise(t, exc) /\ UNCHANGED account
           ELSE /\ account' = Struct(user.value)
                /\ pc' = [pc EXCEPT ![t] = "store_access_token"]
                /\ UNCHANGED <<frame, raised>>
    /\ UNCHANGED <<access_token, refresh_token, headers, loggedIn, overlapped>>
    /\ UNCHANGED <<nCalls, nPassed, nRequests>>
    /\ UNCHANGED callVars

\* self.access_token = r['response']['access_token']
thread_store_access_token(t) ==
    /\ pc[t] = "store_access_token"
    /\ LET r1 == GetItem(frame[t].r, "response")
           at == GetItem(r1.value, "access_token")
           exc == IF r1.exc # "" THEN r1.exc ELSE at.exc
       IN  IF exc # ""
           THEN thread_raise(t, exc) /\ UNCHANGED access_token
           ELSE /\ access_token' = at.value
                /\ pc' = [pc EXCEPT ![t] = "store_refresh_token"]
                /\ UNCHANGED <<frame, raised>>
    /\ UNCHANGED <<account, refresh_token, headers, loggedIn, overlapped>>
    /\ UNCHANGED <<nCalls, nPassed, nRequests>>
    /\ UNCHANGED callVars

\* Variant: a refresh token already stored is kept.
thread_store_refresh_token_keep(t) ==
    /\ pc[t] = "store_refresh_token"
    /\ LET r1 == GetItem(frame[t].r, "response")
           rt == GetItem(r1.value, "refresh_token")
           exc == IF r1.exc # "" THEN r1.exc ELSE rt.exc
       IN  IF exc # ""
           THEN thread_raise(t, exc) /\ UNCHANGED refresh_token
           ELSE /\ refresh_token' = (IF Truthy(refresh_token) THEN refresh_token
                                     ELSE rt.value)
                /\ pc' = [pc EXCEPT ![t] = "load_access_token"]
                /\ UNCHANGED <<frame, raised>>
    /\ UNCHANGED <<account, access_token, headers, loggedIn, overlapped>>
    /\ UNCHANGED <<nCalls, nPassed, nRequests>>
    /\ UNCHANGED callVars

\* self.refresh_token = r['response']['refresh_token']
thread_store_refresh_token(t) ==
    /\ pc[t] = "store_refresh_token"
    /\ LET r1 == GetItem(frame[t].r, "response")
           rt == GetItem(r1.value, "refresh_token")
           exc == IF r1.exc # "" THEN r1.exc ELSE rt.exc
       IN  IF exc # ""
           THEN thread_raise(t, exc) /\ UNCHANGED refresh_token
           ELSE /\ refresh_token' = rt.value
                /\ pc' = [pc EXCEPT ![t] = "load_access_token"]
                /\ UNCHANGED <<frame, raised>>
    /\ UNCHANGED <<account, access_token, headers, loggedIn, overlapped>>
    /\ UNCHANGED <<nCalls, nPassed, nRequests>>
    /\ UNCHANGED callVars

\* {'Authorization': f'Bearer {self.access_token}'}: the token is read back
\* from the client, not from r.
thread_load_access_token(t) ==
    /\ pc[t] = "load_access_token"
    /\ frame' = [frame EXCEPT ![t].token = access_token]
    /\ pc' = [pc EXCEPT ![t] = "update_headers"]
    /\ UNCHANGED <<account, access_token, refresh_token, headers, loggedIn>>
    /\ UNCHANGED <<overlapped, raised, nCalls, nPassed, nRequests>>
    /\ UNCHANGED callVars

\* self.session.headers.update(...), after which the call returns.
thread_update_headers(t) ==
    /\ pc[t] = "update_headers"
    /\ headers' = set_authorization(headers, frame[t].token)
    /\ pc' = [pc EXCEPT ![t] = "idle"]
    /\ frame' = [frame EXCEPT ![t].outcome = auth_outcome("")]
    /\ loggedIn' = TRUE
    /\ UNCHANGED <<account, access_token, refresh_token>>
    /\ UNCHANGED <<overlapped, raised, nCalls, nPassed, nRequests>>
    /\ UNCHANGED callVars

NextThreads ==
    \E t \in Threads :
        \/ thread_login(t)
        \/ thread_authenticate(t)
        \/ thread_receive(t)
        \/ thread_store_account(t)
        \/ thread_store_access_token(t)
        \/ thread_store_refresh_token(t)
        \/ thread_load_access_token(t)
        \/ thread_update_headers(t)

SpecThreads == Init /\ [][NextThreads]_vars

-----------------------------------------------------------------------------
(* Properties *)

AuthOps == {"login", "authenticate"}

\* The methods decorated with require_auth.
GatedMethods ==
    {"search_illustrations", "fetch_illustration", "fetch_illustration_comments",
     "fetch_illustration_related", "fetch_illustrations_following",
     "fetch_illustrations_recommended", "fetch_illustrations_ranking",
     "fetch_trending_tags", "fetch_bookmark", "add_bookmark", "delete_bookmark",
     "fetch_user_bookmarks", "fetch_user_bookmark_tags", "fetch_following",
     "fetch_followers", "fetch_my_pixiv"}

\* The calls whose request goes through _request_json.
JsonOps == GatedMethods \cup {"fetch_user", "fetch_user_illustrations", "_request_json"}

Answered == call.op # "" /\ request # NoRequest /\ ~response.fail

HasAuthorization(h) == "Authorization" \in DOMAIN h

C2_LoginStoresTheResponse ==
    (call.op \in AuthOps /\ outcome.kind = "return") =>
        /\ HasAuthorization(headers)
        /\ \/ /\ response.text = AuthBodyA
              /\ account = Struct(UserA)
              /\ access_token = Str("a1")
              /\ refresh_token = Str("r1")
              /\ headers["Authorization"] = Str("Bearer a1")
           \/ /\ response.text = AuthBodyB
              /\ account = Struct(UserB)
              /\ access_token = Str("a2")
              /\ refresh_token = Str("r2")
              /\ headers["Authorization"] = Str("Bearer a2")

\* A second successful exchange that replaced the tokens of the first: the
\* request still carried the first bearer token.
C2_Witness ==
    /\ call.op \in AuthOps
    /\ outcome.kind = "return"
    /\ HasAuthorization(request.headers)
    /\ request.headers["Authorization"] = Str("Bearer a1")
    /\ access_token = Str("a2")

\* C3: a login() or authenticate() call that raises LoginError leaves
\* account, access_token, refresh_token and the session headers as they were.
C3_FailedLoginCommitsNothing ==
    [][(call'.op \in AuthOps /\ outcome'.exc = "LoginError")
          => UNCHANGED clientState]_vars

\* C4: a login() or authenticate() call that fails raises LoginError and no
\* other exception.
C4_AuthFailureIsLoginError ==
    (call.op \in AuthOps /\ outcome.kind = "raise") => outcome.exc = "LoginError"

\* C5: a response with status 400..499 makes _request_json raise
\* BadApiResponse carrying 'Status code: <status>' and the body text, whether
\* or not the body is JSON.
C5_ClientErrorCarriesStatusAndBody ==
    (call.op \in JsonOps /\ Answered /\ response.status_code \in 400..499) =>
        outcome = Raise("BadApiResponse",
                        <<"Status code: " \o ToString(response.status_code),
                          response.text>>)

C5_Witness ==
    /\ call.op \in JsonOps
    /\ Answered
    /\ response.status_code = 404
    /\ response.text = BodyNotJson
    /\ outcome.args = <<"Status code: 404", "not json">>

\* C6: a response whose status is not 4xx and whose body is not JSON (the
\* empty body included) makes _request_json raise BadApiResponse with no
\* arguments.
C6_UndecodableBodyCarriesNothing ==
    (call.op \in JsonOps /\ Answered /\ response.status_code \notin 400..499
     /\ response.text \in {BodyNotJson, BodyEmpty})
        => outcome = Raise("BadApiResponse", <<>>)

C6_Witness ==
    /\ call.op = "_request_json"
    /\ Answered
    /\ response.status_code = 500
    /\ response.text = BodyEmpty
    /\ outcome.exc = "BadApiResponse"

\* C7: a response whose status is not 4xx and whose body is JSON makes
\* _request_json return the decoded value, for a 5xx status as for a 2xx one.
C7_DecodedValueIsReturned ==
    (call.op = "_request_json" /\ Answered /\ response.status_code \notin 400..499
     /\ response.text \in {BodyEmptyObject, BodyFull, BodyLastPage})
        => /\ outcome.kind = "return"
           /\ response.text = BodyEmptyObject => outcome.value = Dict(EmptyDict)
           /\ response.text # BodyEmptyObject =>
                /\ outcome.value.t = "dict"
                /\ {"illusts", "next_url"} \subseteq DOMAIN outcome.value.v
                /\ outcome.value = json_loads(response.text).value

C7_Witness ==
    /\ call.op = "_request_json"
    /\ Answered
    /\ response.status_code = 500
    /\ response.text = BodyFull
    /\ outcome.kind = "return"

\* C8: a new client has no account, no tokens and no Authorization header,
\* and only login() and authenticate() ever change them.
C8_OnlyAuthChangesCredentials ==
    /\ account = None /\ access_token = None /\ refresh_token = None
    /\ ~HasAuthorization(headers)
    /\ [][call'.op \notin AuthOps => UNCHANGED clientState]_vars

C8_Witness ==
    /\ call.op \in JsonOps \cup {"download"}
    /\ outcome.kind = "raise"
    /\ request # NoRequest
    /\ access_token = Str("a1")

\* C9: the requests issued on the session are as many as the calls that got
\* past the auth gate, one per call, whatever the call's ending.
C9_OneRequestPerPassedCall ==
    /\ nRequests = nPassed
    /\ call.op # "" =>
         ((request = NoRequest) <=> (outcome.exc = "AuthenticationRequired"))

C9_Witness ==
    /\ nCalls = 2
    /\ nPassed = 2
    /\ call.op \in JsonOps
    /\ outcome.exc \in {"BadApiResponse", "RequestException"}

\* C10: an optional argument left None is absent from the outgoing request,
\* and no parameter goes out as 'None' or as an empty string.
ParamName(arg) ==
    CASE arg = "min_bookmark_id_for_recent_illustrations" ->
            "min_bookmark_id_for_recent_illust"
      [] arg = "type_" -> "type"
      [] OTHER -> arg

C10_UnsetArgumentsAreAbsent ==
    /\ \A a \in DOMAIN call.args :
          call.args[a] = None =>
              ~\E p \in request.params \cup request.data : p[1] = ParamName(a)
    /\ call.op \in JsonOps =>
          \A p \in request.params \cup request.data : p[2] \notin {"None", ""}

C10_Witness ==
    /\ call.op = "fetch_illustrations_recommended"
    /\ request # NoRequest
    /\ \A a \in DOMAIN call.args : call.args[a] = None
    /\ <<"content_type", "illust">> \in request.params

\* The endpoint methods, and those among them that carry no require_auth.
EndpointMethods == GatedMethods \cup {"fetch_user", "fetch_user_illustrations"}
UngatedMethods == {"fetch_user", "fetch_user_illustrations"}

ModelMethods ==
    {"search_illustrations", "fetch_illustration", "fetch_illustration_comments",
     "fetch_illustration_related", "fetch_illustrations_following",
     "fetch_illustrations_recommended", "fetch_illustrations_ranking",
     "fetch_trending_tags"}

\* The Illustration and Comment instances held anywhere in a returned value.
RECURSIVE ModelInstances(_)
ModelInstances(v) ==
    IF v.t \in {"Illustration", "Comment"} THEN {v}
    ELSE IF v.t = "dict" THEN UNION {ModelInstances(v.v[k]) : k \in DOMAIN v.v}
    ELSE IF v.t \in {"list", "tuple"}
    THEN UNION {ModelInstances(v.v[i]) : i \in 1..Len(v.v)}
    ELSE {}

\* C12: every Illustration or Comment instance in the value an endpoint
\* method returns holds the client that fetched it.
C12_InstancesHoldTheClient ==
    (call.op \in ModelMethods /\ outcome.kind = "return") =>
        \A m \in ModelInstances(outcome.value) : m.client = Self

\* The methods that accept an offset argument.
OffsetMethods ==
    {"search_illustrations", "fetch_illustration_comments",
     "fetch_illustration_related", "fetch_illustrations_following",
     "fetch_illustrations_recommended", "fetch_illustrations_ranking",
     "fetch_user_illustrations", "fetch_user_bookmark_tags", "fetch_following",
     "fetch_followers", "fetch_my_pixiv"}

\* C13: a call of a method that accepts offset, made with an offset that is
\* not None, sends a request whose query parameters contain that offset.
C13_OffsetIsSent ==
    (call.op \in OffsetMethods /\ request # NoRequest
     /\ call.args["offset"] # None)
        => <<"offset", PyStr(call.args["offset"])>> \in request.params

\* Every thread is between calls.
Quiescent == \A t \in Threads : pc[t] = "idle"

\* Account, tokens and Authorization header are those of the token response
\* with body text.
StoredFrom(text) ==
    LET rsp == json_loads(text).value.v["response"].v
    IN  /\ account = Struct(rsp["user"])
        /\ access_token = rsp["access_token"]
        /\ refresh_token = rsp["refresh_token"]
        /\ HasAuthorization(headers)
        /\ headers["Authorization"] = Str("Bearer " \o PyStr(rsp["access_token"]))

\* The four stored values do not all originate from one token response.
Mixed == ~\E text \in {AuthBodyA, AuthBodyB} : StoredFrom(text)

\* C14: with login()/authenticate() called from two threads on one client,
\* all exchanges succeeding, the client can be left (all calls returned) with
\* account, access_token, refresh_token and Authorization header that do not
\* all originate from the same token response; this happens only when two
\* calls ran at the same time.
C14_MixedOnlyByConcurrentCalls ==
    (Quiescent /\ nCalls > 0 /\ ~raised /\ Mixed) => overlapped

\* Both threads' calls have returned, answered with different token pairs,
\* and the stored values are mixed.
C14_Witness ==
    /\ Quiescent
    /\ ~raised
    /\ frame[1].outcome.kind = "return"
    /\ frame[2].outcome.kind = "return"
    /\ frame[1].text = AuthBodyA
    /\ frame[2].text = AuthBodyB
    /\ Mixed
    /\ overlapped

\* C15: between calls, the session has no Authorization header exactly when
\* access_token is unset, and otherwise the header is "Bearer " followed by
\* the stored access_token.
C15_HeaderFollowsStoredToken ==
    IF access_token = None
    THEN ~HasAuthorization(headers)
    ELSE /\ HasAuthorization(headers)
         /\ headers["Authorization"] = Str("Bearer " \o PyStr(access_token))

=============================================================================
